---- MODULE Spec2Model ----
(***************************************************************************)
(* Weave: the incremental analysis controller (WeaveButton.handleWeave),   *)
(* the board registry with its two persistence tiers (useBoardStorage,     *)
(* binaryStorage) and the item-id allocator (nodeId), as state machines.   *)
(*                                                                         *)
(* JavaScript values are encoded as strings: UNDEF is a field that is      *)
(* absent from an object, JSTRUE / JSFALSE are the booleans.  An id is a   *)
(* pair <<k, n>>: the decimal string of n preceded by k copies of the      *)
(* framework prefix "node-".                                               *)
(***************************************************************************)
EXTENDS Integers, Sequences, FiniteSets, TLC

VARIABLES
    nodes,          \* App: the items on the canvas (React Flow nodes)
    connections,    \* App: the connection list handed to WeaveButton
    counter,        \* nodeId: the module-level id counter
    state,          \* WeaveButton: 'idle' | 'loading' | 'error' | 'no-new'
    loadingMode,    \* WeaveButton: the mode shown while loading
    calls,          \* analyzeCanvas invocations in flight, with their closures
    timers,         \* pending setTimeout(() => setState('idle'), 2000)
    ev,             \* history: what the last handler step did
    lim,            \* the limits of the exploration, fixed by Init
    store,          \* useBoardStorage: the registry (React state)
    ls,             \* localStorage: the registry as last written
    storageError,   \* useBoardStorage: the warning shown, "null" for none
    hydratedBoard,  \* useBoardStorage: the hydrated board, or NoBoard
    hydrating,      \* useBoardStorage: the hydrating flag
    hydratingBoardIdRef,    \* useBoardStorage: the ref, 0 for null
    idb,            \* binaryStorage: the IndexedDB object store, key |-> value
    ops,            \* binaryStorage: the operations issued and not completed
    saveTimer,      \* App: the debounce timer of the auto-save is pending
    boardsMade,     \* how many board ids have been generated
    issued,         \* history: per board, the highest item id issued for it
    sev             \* history: what the last storage step did

svars == <<store, ls, storageError, hydratedBoard, hydrating, hydratingBoardIdRef, idb, ops,
           saveTimer, boardsMade, issued, sev>>

vars == <<nodes, connections, counter, state, loadingMode, calls, timers, ev, lim,
          svars>>

----------------------------------------------------------------------------
(* Bounds of the model *)

MaxNodes == 3       \* items on the canvas
MaxCand == 2        \* candidates in one collaborator response

\* the exploration of rounds on a canvas of content cards (SpecRound)
RoundNodes == 3

\* the exploration of overlapping requests (SpecRace)
RaceNodes == 2
RaceCand == 1
RaceCalls == 2
RaceTimers == 1

----------------------------------------------------------------------------
(* JavaScript values *)

UNDEF == "<undefined>"
JSTRUE == "<true>"
JSFALSE == "<false>"

\* !!v for the values the model uses
Truthy(v) == v \notin {UNDEF, JSFALSE, ""}

PLACEHOLDER_TEXT == "Drag me around the canvas. Zoom and pan to explore."

\* String.prototype.trim on the text samples
Trim(s) == IF s = " " THEN "" ELSE s

WeaveModes == {"weave", "deeper", "tensions"}

NoData == [text |-> UNDEF, imageDataUrl |-> UNDEF, pdfDataUrl |-> UNDEF,
           thumbnailDataUrl |-> UNDEF, url |-> UNDEF, loading |-> UNDEF]

----------------------------------------------------------------------------
(* nodeId *)

\* const strip = (id) => id.replace(/^node-/, '')
strip(id) == IF id[1] > 0 THEN <<id[1] - 1, id[2]>> ELSE id

\* generateNodeId: counter++ ; return String(counter)
generateNodeId(c) == [counter |-> c + 1, id |-> <<0, c + 1>>]

----------------------------------------------------------------------------
(* api/claude *)

isEmptyNode(node) ==
    CASE node.type = "textCard" ->
            \/ ~Truthy(IF node.data.text = UNDEF THEN UNDEF ELSE Trim(node.data.text))
            \/ Trim(node.data.text) = PLACEHOLDER_TEXT
      [] node.type = "imageCard" -> ~Truthy(node.data.imageDataUrl)
      [] node.type = "linkCard" ->
            Truthy(node.data.loading) \/ ~Truthy(node.data.url)
      [] node.type = "pdfCard" -> ~Truthy(node.data.pdfDataUrl)
      [] OTHER -> TRUE

\* analyzeCanvas: the nodes it serializes for the collaborator
contentNodes(ns) ==
    SelectSeq(ns, LAMBDA n:
        /\ Truthy(n.type)
        /\ n.type \in {"textCard", "imageCard", "linkCard", "pdfCard"}
        /\ ~isEmptyNode(n))

\* parsed.connections.map((c) => ({ ...c, mode }))
tagMode(cs, mode) ==
    [i \in 1..Len(cs) |-> [from |-> cs[i].from, to |-> cs[i].to, mode |-> mode]]

----------------------------------------------------------------------------
(* WeaveButton.handleWeave *)

\* a variant that takes the connections of every layer
modeConnsAnyMode(conns, mode) == conns

\* connections.filter((c) => c.mode === mode)
modeConns(conns, mode) == SelectSeq(conns, LAMBDA c: c.mode = mode)

\* the Set built from strip(c.from), strip(c.to) of the mode's connections
connectedNodes(mc) ==
    {strip(mc[i].from) : i \in 1..Len(mc)} \cup {strip(mc[i].to) : i \in 1..Len(mc)}

\* the filter of the pre-check: which nodes count as content nodes
isContentNode(n) ==
    IF ~Truthy(n.type) THEN FALSE
    ELSE CASE n.type = "textCard" ->
                Truthy(n.data.text) /\ Trim(n.data.text) # ""
           [] n.type = "imageCard" -> Truthy(n.data.imageDataUrl)
           [] n.type = "linkCard" ->
                ~Truthy(n.data.loading) /\ Truthy(n.data.url)
           [] n.type = "pdfCard" -> Truthy(n.data.pdfDataUrl)
           [] OTHER -> FALSE

contentNodeIds(ns) ==
    LET kept == SelectSeq(ns, isContentNode)
    IN  [i \in 1..Len(kept) |-> strip(kept[i].id)]

\* the pre-check that skips the API call
allConnected(ns, connected) ==
    LET ids == contentNodeIds(ns)
    IN  /\ Len(ids) >= 2
        /\ \A i \in 1..Len(ids) : ids[i] \in connected

\* a variant that wants both endpoints outside the connected set
hasUnconnectedNodeBoth(c, connected) ==
    strip(c.from) \notin connected /\ strip(c.to) \notin connected

hasUnconnectedNode(c, connected) ==
    LET fromConnected == strip(c.from) \in connected
        toConnected == strip(c.to) \in connected
    IN  ~fromConnected \/ ~toConnected

\* first run keeps everything; a re-run filters
newConnections(isFirstRun, connected, result) ==
    IF isFirstRun THEN result
    ELSE SelectSeq(result, LAMBDA c: hasUnconnectedNode(c, connected))

----------------------------------------------------------------------------
(* App *)

\* const initialNodes: the card the canvas starts with
initialNodes ==
    <<[id |-> <<0, 1>>, type |-> "textCard",
       data |-> [NoData EXCEPT !.text = PLACEHOLDER_TEXT]]>>

\* onResult={(result) => { ...; setConnections(result.connections) }}
onResult(conns, result) == result

\* what the user types into a text card
TextSamples == {"idea"}

\* op: the step; mode, first, connected: the closure of the round; result: what
\* the collaborator returned; kept: what was handed to onResult
NoEv == [op |-> "none", mode |-> "weave", first |-> FALSE, connected |-> {},
         result |-> <<>>, kept |-> <<>>]

\* AddNodeButton.handleAddText
AddText ==
    /\ Len(nodes) < lim.nodes
    /\ LET g == generateNodeId(counter)
       IN  /\ counter' = g.counter
           /\ nodes' = Append(nodes, [id |-> g.id, type |-> "textCard",
                                      data |-> [NoData EXCEPT !.text = ""]])
    /\ ev' = NoEv
    /\ UNCHANGED <<connections, state, loadingMode, calls, timers, lim, svars>>

\* TextCardNode: the text of a card is edited
EditText(i, s) ==
    /\ i \in 1..Len(nodes)
    /\ nodes[i].type = "textCard"
    /\ nodes[i].data.text # s
    /\ nodes' = [nodes EXCEPT ![i].data.text = s]
    /\ ev' = NoEv
    /\ UNCHANGED <<connections, counter, state, loadingMode, calls, timers, lim, svars>>

----------------------------------------------------------------------------
(* WeaveButton.handleWeave as steps of the UI thread *)

\* if (state === 'loading') return
RejectWeave(mode) ==
    /\ state = "loading"
    /\ ev' = [NoEv EXCEPT !.op = "reject"]
    /\ UNCHANGED <<nodes, connections, counter, state, loadingMode, calls, timers, lim, svars>>

\* a variant that shows no-new without starting the display timer
SkipWeaveNoTimer(mode) ==
    LET mc == modeConns(connections, mode)
        connected == connectedNodes(mc)
    IN  /\ state # "loading"
        /\ Len(mc) # 0
        /\ allConnected(nodes, connected)
        /\ state' = "no-new"
        /\ loadingMode' = "null"
        /\ ev' = [NoEv EXCEPT !.op = "skip", !.mode = mode, !.connected = connected]
        /\ UNCHANGED <<nodes, connections, counter, calls, timers, lim, svars>>

\* the pre-check holds: no-new without calling analyzeCanvas
SkipWeave(mode) ==
    LET mc == modeConns(connections, mode)
        isFirstRun == Len(mc) = 0
        connected == connectedNodes(mc)
    IN  /\ state # "loading"
        /\ ~isFirstRun
        /\ allConnected(nodes, connected)
        /\ timers < lim.timers
        /\ state' = "no-new"
        /\ timers' = timers + 1
        /\ loadingMode' = "null"
        /\ ev' = [NoEv EXCEPT !.op = "skip", !.mode = mode, !.first = isFirstRun,
                              !.connected = connected]
        /\ UNCHANGED <<nodes, connections, counter, calls, lim, svars>>

\* up to the await of analyzeCanvas(nodes, mode, connections)
\* (cleared, history: the graph was cleared while the call was in flight)
StartWeave(mode) ==
    LET mc == modeConns(connections, mode)
        isFirstRun == Len(mc) = 0
        connected == connectedNodes(mc)
        sent == contentNodes(nodes)
    IN  /\ state # "loading"
        /\ isFirstRun \/ ~allConnected(nodes, connected)
        /\ Len(calls) < lim.calls
        /\ state' = "loading"
        /\ loadingMode' = mode
        /\ calls' = Append(calls, [mode |-> mode, isFirstRun |-> isFirstRun,
                                   connected |-> connected,
                                   sent |-> {sent[i].id : i \in 1..Len(sent)},
                                   cleared |-> FALSE])
        /\ ev' = [NoEv EXCEPT !.op = "call", !.mode = mode, !.first = isFirstRun,
                              !.connected = connected]
        /\ UNCHANGED <<nodes, connections, counter, timers, lim, svars>>

RemoveAt(s, i) == [j \in 1..(Len(s) - 1) |-> IF j < i THEN s[j] ELSE s[j + 1]]

\* a candidate names two of the items sent; k = 1: the collaborator writes
\* the ids with the prefix
Candidates(sent, k) ==
    {[from |-> <<k, q[1][2]>>, to |-> <<k, q[2][2]>>] :
        q \in {r \in sent \X sent : r[1][2] < r[2][2]}}

RECURSIVE SeqsUpTo(_, _)
SeqsUpTo(S, n) ==
    IF n = 0 THEN {<<>>}
    ELSE LET shorter == SeqsUpTo(S, n - 1)
         IN  shorter \cup {Append(q, x) : q \in {r \in shorter : Len(r) = n - 1}, x \in S}

\* what analyzeCanvas may resolve to, before the tagging: nothing for fewer
\* than two content nodes, else the collaborator's candidates
Responses(call) ==
    IF Cardinality(call.sent) < 2 THEN {<<>>}
    ELSE SeqsUpTo(Candidates(call.sent, 0), lim.cand)
            \cup SeqsUpTo(Candidates(call.sent, 1), lim.cand)

\* analyzeCanvas resolves and handleWeave continues after the await
CompleteWeave(i) ==
    /\ i \in 1..Len(calls)
    /\ \E resp \in Responses(calls[i]) :
         LET call == calls[i]
             result == tagMode(resp, call.mode)
             kept == newConnections(call.isFirstRun, call.connected, result)
         IN  /\ IF Len(kept) = 0
                THEN /\ timers < lim.timers
                     /\ state' = "no-new"
                     /\ timers' = timers + 1
                     /\ UNCHANGED connections
                ELSE /\ connections' = onResult(connections, kept)
                     /\ state' = "idle"
                     /\ UNCHANGED timers
             /\ ev' = [op |-> "done", mode |-> call.mode, first |-> call.isFirstRun,
                       connected |-> call.connected, result |-> resp,
                       kept |-> kept]
    /\ calls' = RemoveAt(calls, i)
    /\ loadingMode' = "null"
    /\ UNCHANGED <<nodes, counter, lim, svars>>

\* analyzeCanvas throws (no API key, HTTP error, unparseable response)
FailWeave(i) ==
    /\ i \in 1..Len(calls)
    /\ timers < lim.timers
    /\ state' = "error"
    /\ timers' = timers + 1
    /\ calls' = RemoveAt(calls, i)
    /\ loadingMode' = "null"
    /\ ev' = [NoEv EXCEPT !.op = "fail", !.mode = calls[i].mode,
                          !.first = calls[i].isFirstRun,
                          !.connected = calls[i].connected]
    /\ UNCHANGED <<nodes, connections, counter, lim, svars>>

\* clearAll(): the graph of every layer is reset
clearAll(conns) == <<>>

\* the Clear button, rendered when hasConnections && !isLoading: onClear
Clear ==
    /\ Len(connections) > 0
    /\ state # "loading"
    /\ connections' = clearAll(connections)
    /\ calls' = [i \in 1..Len(calls) |-> [calls[i] EXCEPT !.cleared = TRUE]]
    /\ ev' = [NoEv EXCEPT !.op = "clear"]
    /\ UNCHANGED <<nodes, counter, state, loadingMode, timers, lim, svars>>

\* a variant whose timer leaves the state as it is
TimeoutKeepsState ==
    /\ timers > 0
    /\ timers' = timers - 1
    /\ ev' = NoEv
    /\ UNCHANGED <<nodes, connections, counter, state, loadingMode, calls, lim, svars>>

\* setTimeout(() => setState('idle'), 2000) fires
Timeout ==
    /\ timers > 0
    /\ timers' = timers - 1
    /\ state' = "idle"
    /\ ev' = NoEv
    /\ UNCHANGED <<nodes, connections, counter, loadingMode, calls, lim, svars>>

----------------------------------------------------------------------------
(* utils/binaryStorage *)

\* const BINARY_FIELDS / getBinaryFields(nodeType)
getBinaryFields(type) ==
    CASE type = "imageCard" -> {"imageDataUrl"}
      [] type = "pdfCard" -> {"pdfDataUrl", "thumbnailDataUrl"}
      [] OTHER -> {}

\* a variant that leaves the item out of the key
makeKeyNoNode(boardId, nodeId, field) == <<boardId, 0, field>>

\* `${boardId}:${nodeId}:${field}`
makeKey(boardId, nodeId, field) == <<boardId, nodeId, field>>

\* a variant that compares the whole key with the prefix
keysOfBoardExact(allKeys, boardId) == {k \in allKeys : k = <<boardId>>}

\* deleteBinaryDataForBoard: the keys that start with `${boardId}:`
keysOfBoard(allKeys, boardId) == {k \in allKeys : k[1] = boardId}

\* the binary store after set(key, value) for every entry of writes
PutAll(db, writes) ==
    [k \in DOMAIN db \cup DOMAIN writes |->
        IF k \in DOMAIN writes THEN writes[k] ELSE db[k]]

\* the binary store after del(key) for every key of ks
DelAll(db, ks) == [k \in DOMAIN db \ ks |-> db[k]]

----------------------------------------------------------------------------
(* hooks/useBoardStorage: the pure parts *)

CURRENT_VERSION == 1

\* createDefaultBoard, with the id crypto.randomUUID() returned
createDefaultBoard(id) ==
    [id |-> id, name |-> "Untitled Board", nodes |-> <<>>, connections |-> <<>>,
     nodeIdCounter |-> 1]

\* no board: the null of hydratedBoard, and the id 0 the null of the ref
NoBoard == [id |-> 0, name |-> "", nodes |-> <<>>, connections |-> <<>>,
            nodeIdCounter |-> 0]

\* Object.keys(boards)[0]: the keys keep their insertion order, and ids are
\* numbered in the order the boards were made
\* (0: undefined, of an object without keys)
FirstKey(boards) ==
    IF DOMAIN boards = {} THEN 0
    ELSE CHOOSE b \in DOMAIN boards : \A c \in DOMAIN boards : b <= c

\* a variant that accepts a registry without boards
isValidStoreAnyBoards(raw) ==
    /\ raw.kind = "object"
    /\ "version" \in DOMAIN raw.value
    /\ "lastActiveBoard" \in DOMAIN raw.value
    /\ "boards" \in DOMAIN raw.value

\* what localStorage.getItem + JSON.parse may give: nothing, text that does
\* not parse, or an object
isValidStore(raw) ==
    /\ raw.kind = "object"
    /\ "version" \in DOMAIN raw.value
    /\ "lastActiveBoard" \in DOMAIN raw.value
    /\ "boards" \in DOMAIN raw.value
    /\ DOMAIN raw.value.boards # {}

\* a variant whose pointer is left unset
defaultStoreNoActive(freshId) ==
    [version |-> CURRENT_VERSION, lastActiveBoard |-> 0,
     boards |-> (freshId :> createDefaultBoard(freshId))]

\* loadOrCreateStore: the store built around a default board
defaultStore(freshId) ==
    [version |-> CURRENT_VERSION, lastActiveBoard |-> freshId,
     boards |-> (freshId :> createDefaultBoard(freshId))]

\* loadOrCreateStore: the store it returns (freshId: the id of the default board)
loadOrCreateStore(raw, freshId) ==
    IF isValidStore(raw)
    THEN IF raw.value.lastActiveBoard \notin DOMAIN raw.value.boards
         THEN [raw.value EXCEPT !.lastActiveBoard = FirstKey(raw.value.boards)]
         ELSE raw.value
    ELSE defaultStore(freshId)

\* a variant that strips the fields of PDF cards only
stripBinaryFieldsPdf(node) ==
    [node EXCEPT !.data = [f \in DOMAIN node.data |->
        IF f \in getBinaryFields("pdfCard") THEN UNDEF ELSE node.data[f]]]

\* stripBinaryFields: delete strippedData[field] for every binary field
stripBinaryFields(node) ==
    [node EXCEPT !.data = [f \in DOMAIN node.data |->
        IF f \in getBinaryFields(node.type) THEN UNDEF ELSE node.data[f]]]

\* typeof value === 'string' && value.length > 0
IsNonEmptyString(v) == v \notin {UNDEF, JSTRUE, JSFALSE, ""}

\* saveBinaryFieldsForNodes: the writes it issues, key |-> value; of two
\* writes to one key the later one stands
saveBinaryFieldsForNodes(boardId, ns) ==
    LET hits == {<<i, f>> \in (1..Len(ns)) \X {"imageDataUrl", "pdfDataUrl", "thumbnailDataUrl"} :
                    /\ f \in getBinaryFields(ns[i].type)
                    /\ IsNonEmptyString(ns[i].data[f])}
        keyOf(h) == makeKey(boardId, ns[h[1]].id, h[2])
        last(k) == CHOOSE h \in hits :
                      /\ keyOf(h) = k
                      /\ \A g \in hits : keyOf(g) = k => g[1] <= h[1]
    IN  [k \in {keyOf(h) : h \in hits} |-> ns[last(k)[1]].data[last(k)[2]]]

\* hydrateNodesFromIndexedDB over the binary store db
hydrateNodesFromIndexedDB(db, boardId, ns) ==
    [i \in 1..Len(ns) |->
        [ns[i] EXCEPT !.data = [f \in DOMAIN ns[i].data |->
            LET key == makeKey(boardId, ns[i].id, f)
            IN  IF /\ f \in getBinaryFields(ns[i].type)
                   /\ ~Truthy(ns[i].data[f])
                   /\ key \in DOMAIN db
                   /\ Truthy(db[key])
                THEN db[key] ELSE ns[i].data[f]]]]

\* stripLoadingFromLinkCards(serializeNodes(nodes))
stripLoadingFromLinkCards(ns) ==
    [i \in 1..Len(ns) |->
        IF ns[i].type = "linkCard" /\ Truthy(ns[i].data.loading)
        THEN [ns[i] EXCEPT !.data.loading = JSFALSE] ELSE ns[i]]

\* const currentBoard (NoBoard: undefined)
currentBoard(st, hb) ==
    IF hb.id # 0 /\ hb.id = st.lastActiveBoard THEN hb
    ELSE IF st.lastActiveBoard \in DOMAIN st.boards
    THEN st.boards[st.lastActiveBoard]
    ELSE NoBoard

\* the store saveCurrentBoard's updater returns for prev
savedStore(prev, fullNodes, conns, c) ==
    [prev EXCEPT !.boards[prev.lastActiveBoard] =
        [@ EXCEPT !.nodes = [i \in 1..Len(fullNodes) |-> stripBinaryFields(fullNodes[i])],
                  !.connections = conns,
                  !.nodeIdCounter = c]]

----------------------------------------------------------------------------
(* useBoardStorage and the App that uses it, as steps of the UI thread.      *)
(* A step is one event handler together with the renders and effects that   *)
(* follow it before the next event.  IndexedDB runs the transactions on one  *)
(* object store in the order they were created, so the pending binary       *)
(* operations form a queue; the writes of one save and the deletions of one *)
(* sweep are created together and stand in the queue as one entry.          *)

HasBinaryNodes(ns) == \E i \in 1..Len(ns) : getBinaryFields(ns[i].type) # {}

\* the hydration effect, then the App's sync effect and debounce effect, for
\* the store st the handler left; depsChanged: the debounce effect's deps
\* changed in the handler.  A board without binary fields resolves within
\* the same task.
Effects(st, ref, hb, hy, q, ns, cs, timer, depsChanged) ==
    LET board == IF st.lastActiveBoard \in DOMAIN st.boards
                 THEN st.boards[st.lastActiveBoard] ELSE NoBoard
        shown == currentBoard(st, hb)
    IN  IF board.id = 0 \/ ref = board.id
        THEN [ref |-> ref, hb |-> hb, hy |-> hy, q |-> q, nodes |-> ns,
              conns |-> cs, timer |-> IF depsChanged THEN ~hy ELSE timer]
        ELSE IF HasBinaryNodes(board.nodes)
        THEN [ref |-> board.id, hb |-> hb, hy |-> TRUE,
              q |-> Append(q, [kind |-> "hydrate", board |-> board]),
              nodes |-> shown.nodes, conns |-> shown.connections,
              timer |-> FALSE]
        ELSE [ref |-> board.id, hb |-> board, hy |-> FALSE, q |-> q,
              nodes |-> board.nodes, conns |-> board.connections,
              timer |-> TRUE]

\* localStorage.setItem returns, or throws: the QuotaExceededError of a full
\* store, or something else; fails: the failures the exploration admits
WriteOutcomes(fails) == {"ok"} \cup fails

STORAGE_FULL == "Storage is full. Some changes may not be saved. Try removing large images or PDFs."

SAVE_FAILED == "Failed to save board data."

\* a variant that reports every failure the same way
persistToLocalStorageGeneric(prevLs, nextStore, o) ==
    [ls |-> IF o = "ok" THEN nextStore ELSE prevLs,
     storageError |-> IF o = "ok" THEN "null" ELSE SAVE_FAILED]

\* persistToLocalStorage(nextStore) when setItem ends as o: what localStorage
\* holds afterwards, and the storageError it sets
persistToLocalStorage(prevLs, nextStore, o) ==
    [ls |-> IF o = "ok" THEN nextStore ELSE prevLs,
     storageError |-> CASE o = "ok" -> "null"
                        [] o = "quota" -> STORAGE_FULL
                        [] OTHER -> SAVE_FAILED]

\* saveCurrentBoard's updater and a persist(...) called in one event: the
\* updater writes saved, at once or at the next render, persist writes next;
\* the later write, and the later setStorageError, stand
persistBoth(prevLs, saved, next, outcomes) ==
    { LET w == persistToLocalStorage(persistToLocalStorage(prevLs, a[1], o1).ls, a[2], o2)
      IN  [ls |-> w.ls, storageError |-> w.storageError, wrote |-> <<o1, o2>>] :
        a \in {<<saved, next>>, <<next, saved>>}, o1 \in outcomes, o2 \in outcomes }

\* the queue after saveCurrentBoard issued its writes for boardId
WithWrites(q, boardId, fullNodes) ==
    LET writes == saveBinaryFieldsForNodes(boardId, fullNodes)
    IN  IF DOMAIN writes = {} THEN q
        ELSE Append(q, [kind |-> "set", board |-> boardId, writes |-> writes])

\* op "add": the id issued for board, and the highest issued before it (in
\* the specifications that track the ids); "delete": what deleteBoard
\* returned; "hydrated": the board whose hydration resolved; "del": the
\* sweep of board removed its keys, raced: a save for the board was pending
\* when deleteBoard was called
NoSev == [op |-> "none", board |-> 0, ret |-> TRUE, id |-> 0, before |-> 0,
          raced |-> FALSE, wrote |-> <<>>]

\* history of a step whose metadata writes ended as os: when one of them
\* failed, the operation and the outcomes of its writes, in their order
Wrote(s, op, board, os) ==
    IF \A i \in 1..Len(os) : os[i] = "ok" THEN s
    ELSE [s EXCEPT !.op = op, !.board = board, !.wrote = os]

Apply(e) ==
    /\ hydratingBoardIdRef' = e.ref
    /\ hydratedBoard' = e.hb
    /\ hydrating' = e.hy
    /\ ops' = e.q
    /\ nodes' = e.nodes
    /\ connections' = e.conns
    /\ saveTimer' = e.timer

\* a variant that never arms the timer
debounceNever(hy) == FALSE

\* the debounced auto-save effect after nodes or connections changed: the
\* pending timer is cleared, and a new one armed unless hydrating
debounce(hy) == ~hy

\* what a dropped or picked image file holds
BinarySamples == {"img"}

\* AddNodeButton.handleAddText / handleFileChange: a card is added
AddCard(type, v) ==
    /\ Len(nodes) < lim.nodes
    /\ counter < lim.ids
    /\ LET g == generateNodeId(counter)
           b == store.lastActiveBoard
       IN  /\ counter' = g.counter
           /\ nodes' = Append(nodes,
                  [id |-> g.id, type |-> type,
                   data |-> IF type = "imageCard"
                            THEN [NoData EXCEPT !.imageDataUrl = v]
                            ELSE [NoData EXCEPT !.text = v]])
           /\ IF lim.track
              THEN /\ sev' = [NoSev EXCEPT !.op = "add", !.board = b,
                                           !.id = g.id[2], !.before = issued[b]]
                   /\ issued' = [issued EXCEPT ![b] = IF g.id[2] > @ THEN g.id[2] ELSE @]
              ELSE /\ sev' = NoSev
                   /\ UNCHANGED issued
    /\ saveTimer' = debounce(hydrating)
    /\ UNCHANGED <<connections, store, ls, storageError, hydratedBoard, hydrating,
                   hydratingBoardIdRef, idb, ops, boardsMade>>
    /\ UNCHANGED <<state, loadingMode, calls, timers, ev, lim>>

\* WeaveButton's onResult in the App with board storage:
\* setConnections(result.connections)
OnResult ==
    /\ \E c \in Candidates({nodes[i].id : i \in 1..Len(nodes)}, 0) :
          LET result == tagMode(<<c>>, "weave")
          IN  /\ result # connections
              /\ connections' = onResult(connections, result)
    /\ saveTimer' = debounce(hydrating)
    /\ sev' = NoSev
    /\ UNCHANGED <<nodes, counter, store, ls, storageError, hydratedBoard, hydrating,
                   hydratingBoardIdRef, idb, ops, boardsMade, issued>>
    /\ UNCHANGED <<state, loadingMode, calls, timers, ev, lim>>

\* the debounce timer fires: saveCurrentBoard(nodes, connections)
\* a variant whose handler shows the storage warning
catchWarnShown(se) == SAVE_FAILED

\* .catch((e) => console.warn(...)): the rejection of a binary write or of
\* a clean-up is logged, the storage warning stays as it is
catchWarn(se) == se

\* the tier rejects the operation at the head of the queue (an I/O error, a
\* full quota, a closed database).  Promise.all rejects with the first
\* failure, the writes or deletions already issued may still land.  A
\* rejected hydration has no handler: its .then is skipped
RejectOp ==
    /\ ops # <<>>
    /\ LET op == Head(ops)
       IN  /\ ops' = Tail(ops)
           /\ sev' = [NoSev EXCEPT !.op = "rejected",
                                   !.board = IF op.kind = "hydrate" THEN op.board.id
                                             ELSE op.board,
                                   !.wrote = <<op.kind>>]
           /\ CASE op.kind = "set" ->
                    \E landed \in SUBSET DOMAIN op.writes :
                        /\ landed # DOMAIN op.writes
                        /\ idb' = PutAll(idb, [k \in landed |-> op.writes[k]])
                        /\ storageError' = catchWarn(storageError)
               [] op.kind = "del" ->
                    \E gone \in SUBSET op.keys :
                        /\ gone # op.keys
                        /\ idb' = DelAll(idb, gone)
                        /\ storageError' = catchWarn(storageError)
               [] op.kind = "keys" ->
                    /\ storageError' = catchWarn(storageError)
                    /\ UNCHANGED idb
               [] op.kind = "hydrate" ->
                    UNCHANGED <<idb, storageError>>
    /\ UNCHANGED <<nodes, connections, counter, store, ls, hydratedBoard, hydrating,
                   hydratingBoardIdRef, saveTimer, boardsMade, issued>>
    /\ UNCHANGED <<state, loadingMode, calls, timers, ev, lim>>

Autosave ==
    /\ saveTimer
    /\ Len(ops) < lim.ops
    /\ LET fullNodes == stripLoadingFromLinkCards(nodes)
           next == savedStore(store, fullNodes, connections, counter)
           e == Effects(next, hydratingBoardIdRef, hydratedBoard, hydrating,
                        WithWrites(ops, store.lastActiveBoard, fullNodes),
                        nodes, connections, FALSE, FALSE)
       IN  /\ store' = next
           /\ \E o \in WriteOutcomes(lim.fails) :
                LET w == persistToLocalStorage(ls, next, o)
                IN  /\ ls' = w.ls
                    /\ storageError' = w.storageError
                    /\ sev' = Wrote(NoSev, "save", store.lastActiveBoard, <<o>>)
           /\ Apply(e)
    /\ UNCHANGED <<counter, idb, boardsMade, issued>>
    /\ UNCHANGED <<state, loadingMode, calls, timers, ev, lim>>

\* App.handleSwitchBoard: saveCurrentBoard(nodes, connections) and
\* switchBoard(boardId) in one event.  switchBoard persists its closure's
\* store, which replaces the update saveCurrentBoard queued; localStorage
\* keeps whichever of the two was written last (the updater runs at once, or
\* at the next render).
HandleSwitchBoard(boardId) ==
    /\ boardId \in DOMAIN store.boards
    /\ boardId # store.lastActiveBoard
    /\ Len(ops) < lim.ops
    /\ LET fullNodes == stripLoadingFromLinkCards(nodes)
           saved == savedStore(store, fullNodes, connections, counter)
           next == [store EXCEPT !.lastActiveBoard = boardId]
           e == Effects(next, 0, hydratedBoard, hydrating,
                        WithWrites(ops, store.lastActiveBoard, fullNodes),
                        nodes, connections, saveTimer, TRUE)
       IN  /\ counter' = store.boards[boardId].nodeIdCounter
           /\ store' = next
           /\ \E w \in persistBoth(ls, saved, next, WriteOutcomes(lim.fails)) :
                /\ ls' = w.ls
                /\ storageError' = w.storageError
                /\ sev' = Wrote(NoSev, "switch", boardId, w.wrote)
           /\ Apply(e)
    /\ UNCHANGED <<idb, boardsMade, issued>>
    /\ UNCHANGED <<state, loadingMode, calls, timers, ev, lim>>

\* App.handleCreateBoard: saveCurrentBoard(nodes, connections) and
\* createBoard() in one event
HandleCreateBoard ==
    /\ boardsMade < lim.boards
    /\ Len(ops) < lim.ops
    /\ LET id == boardsMade + 1
           board == createDefaultBoard(id)
           fullNodes == stripLoadingFromLinkCards(nodes)
           saved == savedStore(store, fullNodes, connections, counter)
           next == [store EXCEPT !.lastActiveBoard = id,
                                 !.boards = (id :> board) @@ store.boards]
           e == Effects(next, 0, board, FALSE,
                        WithWrites(ops, store.lastActiveBoard, fullNodes),
                        nodes, connections, saveTimer, TRUE)
       IN  /\ counter' = 1
           /\ boardsMade' = id
           /\ issued' = IF lim.track THEN (id :> 1) @@ issued ELSE issued
           /\ store' = next
           /\ \E w \in persistBoth(ls, saved, next, WriteOutcomes(lim.fails)) :
                /\ ls' = w.ls
                /\ storageError' = w.storageError
                /\ sev' = Wrote(NoSev, "create", id, w.wrote)
           /\ Apply(e)
    /\ UNCHANGED idb
    /\ UNCHANGED <<state, loadingMode, calls, timers, ev, lim>>

\* the names a board is renamed to
NameSamples == {"Renamed"}

\* renameBoard(boardId, newName)
RenameBoard(boardId, newName) ==
    /\ boardId \in DOMAIN store.boards
    /\ store.boards[boardId].name # newName
    /\ LET next == [store EXCEPT !.boards[boardId].name = newName]
           e == Effects(next, hydratingBoardIdRef, hydratedBoard, hydrating,
                        ops, nodes, connections, saveTimer, FALSE)
       IN  /\ store' = next
           /\ \E o \in WriteOutcomes(lim.fails) :
                LET w == persistToLocalStorage(ls, next, o)
                IN  /\ ls' = w.ls
                    /\ storageError' = w.storageError
                    /\ sev' = Wrote(NoSev, "rename", boardId, <<o>>)
           /\ Apply(e)
    /\ UNCHANGED <<counter, idb, boardsMade, issued>>
    /\ UNCHANGED <<state, loadingMode, calls, timers, ev, lim>>

\* a variant that refuses only on an empty registry
isLastBoardEmpty(boards) == Cardinality(DOMAIN boards) < 1

\* if (boardIds.length <= 1) return false
isLastBoard(boards) == Cardinality(DOMAIN boards) <= 1

\* deleteBoard(boardId) on a registry with a single board: return false
deleteBoardRefused(boardId) ==
    /\ isLastBoard(store.boards)
    /\ sev' = [NoSev EXCEPT !.op = "delete", !.board = boardId, !.ret = FALSE]
    /\ UNCHANGED <<nodes, connections, counter, store, ls, storageError,
                   hydratedBoard, hydrating, hydratingBoardIdRef, idb, ops,
                   saveTimer, boardsMade, issued>>
    /\ UNCHANGED <<state, loadingMode, calls, timers, ev, lim>>

\* a variant that leaves the pointer where it was
newActiveBoardKept(st, boardId, remainingBoards) == st.lastActiveBoard

\* deleteBoard: newActive, the first remaining board when the active one goes
newActiveBoard(st, boardId, remainingBoards) ==
    IF st.lastActiveBoard = boardId
    THEN FirstKey(remainingBoards)
    ELSE st.lastActiveBoard

\* BoardSwitcher.handleDelete on a listed board, the only one
DeleteRefused(boardId) ==
    /\ boardId \in DOMAIN store.boards
    /\ deleteBoardRefused(boardId)

\* deleteBoard(boardId) past the refusal: return true
deleteBoardDone(boardId) ==
    /\ ~isLastBoard(store.boards)
    /\ Len(ops) < lim.ops
    /\ LET remainingBoards == [b \in DOMAIN store.boards \ {boardId} |-> store.boards[b]]
           newActive == newActiveBoard(store, boardId, remainingBoards)
           next == [store EXCEPT !.lastActiveBoard = newActive,
                                 !.boards = remainingBoards]
           e == Effects(next,
                        IF store.lastActiveBoard = boardId THEN 0
                        ELSE hydratingBoardIdRef,
                        hydratedBoard, hydrating,
                        Append(ops, [kind |-> "keys", board |-> boardId,
                                     raced |-> \E i \in 1..Len(ops) :
                                         /\ ops[i].kind = "set"
                                         /\ ops[i].board = boardId]),
                        nodes, connections, saveTimer,
                        store.lastActiveBoard = boardId)
       IN  /\ counter' = IF newActive \in DOMAIN remainingBoards
                         THEN remainingBoards[newActive].nodeIdCounter
                         ELSE counter
           /\ store' = next
           /\ \E o \in WriteOutcomes(lim.fails) :
                LET w == persistToLocalStorage(ls, next, o)
                IN  /\ ls' = w.ls
                    /\ storageError' = w.storageError
                    /\ sev' = Wrote([NoSev EXCEPT !.op = "delete", !.board = boardId,
                                                  !.before = store.lastActiveBoard],
                                    "delete", boardId, <<o>>)
           /\ Apply(e)
    /\ UNCHANGED <<idb, boardsMade, issued>>
    /\ UNCHANGED <<state, loadingMode, calls, timers, ev, lim>>

\* BoardSwitcher.handleDelete on a listed board
DeleteBoard(boardId) ==
    /\ boardId \in DOMAIN store.boards
    /\ deleteBoardDone(boardId)

\* deleteBoard(boardId), called with any id
deleteBoard(boardId) ==
    \/ deleteBoardRefused(boardId)
    \/ deleteBoardDone(boardId)

\* a variant that takes every id for a board
hasBoardAny(st, boardId) == TRUE

\* const board = store.boards[boardId]; if (!board) return
hasBoard(st, boardId) == boardId \in DOMAIN st.boards

\* a call that returned at once: nothing but the history changes
ReturnedEarly(op, boardId) ==
    /\ sev' = [NoSev EXCEPT !.op = op, !.board = boardId]
    /\ UNCHANGED <<nodes, connections, counter, store, ls, storageError,
                   hydratedBoard, hydrating, hydratingBoardIdRef, idb, ops,
                   saveTimer, boardsMade, issued>>
    /\ UNCHANGED <<state, loadingMode, calls, timers, ev, lim>>

\* switchBoard(boardId), called with any id
switchBoard(boardId) ==
    IF ~hasBoard(store, boardId)
    THEN ReturnedEarly("switch", boardId)
    ELSE LET board == IF boardId \in DOMAIN store.boards
                      THEN store.boards[boardId] ELSE NoBoard
             next == [store EXCEPT !.lastActiveBoard = boardId]
             e == Effects(next, 0, hydratedBoard, hydrating, ops, nodes,
                          connections, saveTimer, TRUE)
         IN  /\ counter' = board.nodeIdCounter
             /\ store' = next
             /\ \E o \in WriteOutcomes(lim.fails) :
                  LET w == persistToLocalStorage(ls, next, o)
                  IN  /\ ls' = w.ls
                      /\ storageError' = w.storageError
                      /\ sev' = [NoSev EXCEPT !.op = "switch", !.board = boardId,
                                              !.wrote = IF o = "ok" THEN <<>> ELSE <<o>>]
             /\ Apply(e)
             /\ UNCHANGED <<idb, boardsMade, issued>>
             /\ UNCHANGED <<state, loadingMode, calls, timers, ev, lim>>

\* renameBoard(boardId, newName), called with any id
renameBoard(boardId, newName) ==
    IF ~hasBoard(store, boardId)
    THEN ReturnedEarly("rename", boardId)
    ELSE LET next == [store EXCEPT !.boards[boardId].name = newName]
             e == Effects(next, hydratingBoardIdRef, hydratedBoard, hydrating,
                          ops, nodes, connections, saveTimer, FALSE)
         IN  /\ store' = next
             /\ \E o \in WriteOutcomes(lim.fails) :
                  LET w == persistToLocalStorage(ls, next, o)
                  IN  /\ ls' = w.ls
                      /\ storageError' = w.storageError
                      /\ sev' = [NoSev EXCEPT !.op = "rename", !.board = boardId,
                                              !.wrote = IF o = "ok" THEN <<>> ELSE <<o>>]
             /\ Apply(e)
             /\ UNCHANGED <<counter, idb, boardsMade, issued>>
             /\ UNCHANGED <<state, loadingMode, calls, timers, ev, lim>>

\* the oldest pending binary operation completes
ExecOp ==
    /\ ops # <<>>
    /\ LET op == Head(ops)
       IN  CASE op.kind = "set" ->
                  /\ idb' = PutAll(idb, op.writes)
                  /\ ops' = Tail(ops)
                  /\ sev' = NoSev
                  /\ UNCHANGED <<nodes, connections, hydratedBoard, hydrating,
                                 saveTimer>>
             [] op.kind = "keys" ->
                  \* await keys(); then del() for every key with the prefix
                  /\ LET toDelete == keysOfBoard(DOMAIN idb, op.board)
                     IN  ops' = IF toDelete = {} THEN Tail(ops)
                                ELSE Append(Tail(ops), [kind |-> "del", board |-> op.board,
                                                        raced |-> op.raced,
                                                        keys |-> toDelete])
                  /\ sev' = NoSev
                  /\ UNCHANGED <<idb, nodes, connections, hydratedBoard,
                                 hydrating, saveTimer>>
             [] op.kind = "del" ->
                  /\ idb' = DelAll(idb, op.keys)
                  /\ ops' = Tail(ops)
                  /\ sev' = [NoSev EXCEPT !.op = "del", !.board = op.board,
                                          !.raced = op.raced]
                  /\ UNCHANGED <<nodes, connections, hydratedBoard, hydrating,
                                 saveTimer>>
             [] op.kind = "hydrate" ->
                  \* the reads, and the .then of the hydration effect
                  LET hb == [op.board EXCEPT !.nodes =
                                hydrateNodesFromIndexedDB(idb, op.board.id, op.board.nodes)]
                      shown == currentBoard(store, hb)
                  IN  /\ hydratedBoard' = hb
                      /\ hydrating' = FALSE
                      /\ ops' = Tail(ops)
                      /\ IF hydrating
                         THEN /\ nodes' = shown.nodes
                              /\ connections' = shown.connections
                              /\ saveTimer' = TRUE
                         ELSE UNCHANGED <<nodes, connections, saveTimer>>
                      /\ sev' = [NoSev EXCEPT !.op = "hydrated", !.board = op.board.id]
                      /\ UNCHANGED idb
    /\ UNCHANGED <<counter, store, ls, storageError, hydratingBoardIdRef,
                   boardsMade, issued>>
    /\ UNCHANGED <<state, loadingMode, calls, timers, ev, lim>>

\* what localStorage holds when the page loads
RawSamples ==
    { [kind |-> "null", value |-> <<>>],
      [kind |-> "garbage", value |-> <<>>],
      [kind |-> "object",
       value |-> [version |-> CURRENT_VERSION, lastActiveBoard |-> 1, boards |-> <<>>]] }

\* the weave specifications run the App without board storage
NoStorage ==
    /\ store = [version |-> CURRENT_VERSION, lastActiveBoard |-> 0, boards |-> <<>>]
    /\ ls = store
    /\ storageError = "null"
    /\ hydratedBoard = NoBoard
    /\ hydrating = FALSE
    /\ hydratingBoardIdRef = 0
    /\ idb = <<>>
    /\ ops = <<>>
    /\ saveTimer = FALSE
    /\ boardsMade = 0
    /\ issued = <<>>
    /\ sev = NoSev

\* useBoardStorage and App after the first render and its effects
InitStorage ==
    /\ \E raw \in RawSamples :
          /\ store = loadOrCreateStore(raw, 1)
          /\ ls = store
    /\ storageError = "null"
    /\ boardsMade = 1
    /\ counter = store.boards[store.lastActiveBoard].nodeIdCounter
    /\ LET e == Effects(store, 0, NoBoard, TRUE, <<>>,
                        store.boards[store.lastActiveBoard].nodes,
                        store.boards[store.lastActiveBoard].connections,
                        FALSE, TRUE)
       IN  /\ hydratingBoardIdRef = e.ref
           /\ hydratedBoard = e.hb
           /\ hydrating = e.hy
           /\ ops = e.q
           /\ nodes = e.nodes
           /\ connections = e.conns
           /\ saveTimer = e.timer
    /\ idb = <<>>
    /\ issued = (1 :> 1)
    /\ sev = NoSev
    /\ state = "idle"
    /\ loadingMode = "null"
    /\ calls = <<>>
    /\ timers = 0
    /\ ev = NoEv

\* bounds of the storage exploration
StoreNodes == 2      \* cards on the canvas
StoreIds == 3        \* the highest item id issued
StoreBoards == 2     \* boards made in a session
StoreOps == 2        \* binary operations pending when a handler starts

InitStore ==
    /\ InitStorage
    /\ lim = [nodes |-> StoreNodes, cand |-> 0, calls |-> 0, timers |-> 0, fails |-> {},
              boards |-> StoreBoards, ops |-> StoreOps, ids |-> StoreIds,
              track |-> TRUE]

NextStore ==
    \/ AddCard("textCard", "")
    \/ \E v \in BinarySamples : AddCard("imageCard", v)
    \/ Autosave
    \/ \E b \in 1..lim.boards : HandleSwitchBoard(b)
    \/ HandleCreateBoard
    \/ \E b \in 1..lim.boards : DeleteRefused(b)
    \/ \E b \in 1..lim.boards : DeleteBoard(b)
    \/ ExecOp

SpecStore == InitStore /\ [][NextStore]_vars

\* the registry alone: text cards, every board operation
RegNodes == 1
RegIds == 2
RegBoards == 2
RegOps == 1

InitRegistry ==
    /\ InitStorage
    /\ lim = [nodes |-> RegNodes, cand |-> 0, calls |-> 0, timers |-> 0, fails |-> {},
              boards |-> RegBoards, ops |-> RegOps, ids |-> RegIds,
              track |-> FALSE]

NextRegistry ==
    \/ AddCard("textCard", "")
    \/ Autosave
    \/ \E b \in 1..lim.boards : HandleSwitchBoard(b)
    \/ HandleCreateBoard
    \/ \E b \in 1..lim.boards, n \in NameSamples : RenameBoard(b, n)
    \/ \E b \in 1..lim.boards : DeleteRefused(b)
    \/ \E b \in 1..lim.boards : DeleteBoard(b)
    \/ ExecOp

SpecRegistry == InitRegistry /\ [][NextRegistry]_vars

\* the binary tier: image cards; saves, creations and deletions in flight
SweepNodes == 1
SweepIds == 2
SweepBoards == 3
SweepOps == 2

InitSweep ==
    /\ InitStorage
    /\ lim = [nodes |-> SweepNodes, cand |-> 0, calls |-> 0, timers |-> 0, fails |-> {},
              boards |-> SweepBoards, ops |-> SweepOps, ids |-> SweepIds,
              track |-> FALSE]

NextSweep ==
    \/ \E v \in BinarySamples : AddCard("imageCard", v)
    \/ Autosave
    \/ HandleCreateBoard
    \/ \E b \in 1..lim.boards : DeleteBoard(b)
    \/ ExecOp

SpecSweep == InitSweep /\ [][NextSweep]_vars

----------------------------------------------------------------------------
(* The persistence round trip: stripBinaryFields, saveBinaryFieldsForNodes   *)
(* and hydrateNodesFromIndexedDB applied to item lists.  nodes holds the    *)
(* original items, hydratedBoard.nodes their projection, sev.op the stage.  *)

RTLen == 2          \* items in a list

\* the data an item of each kind may hold: every binary field absent, empty
\* or non-empty
ItemData ==
    [textCard |-> {[NoData EXCEPT !.text = "idea"]},
     imageCard |-> {[NoData EXCEPT !.imageDataUrl = v] : v \in {UNDEF, "", "imgA", "imgB"}},
     pdfCard |-> {[NoData EXCEPT !.pdfDataUrl = v, !.thumbnailDataUrl = w] :
                     v \in {UNDEF, "", "pdfA"}, w \in {UNDEF, "", "thumbA"}}]

RECURSIVE ItemLists(_)
ItemLists(n) ==
    IF n = 0 THEN {<<>>}
    ELSE LET shorter == ItemLists(n - 1)
         IN  shorter \cup
             {Append(q, [id |-> <<0, n + 1>>, type |-> t, data |-> d]) :
                 q \in {r \in shorter : Len(r) = n - 1},
                 t \in DOMAIN ItemData, d \in UNION {ItemData[u] : u \in DOMAIN ItemData}}

\* the binary store before the save: empty, or holding another board's data
TierSamples == {<<>>, (makeKey(2, <<0, 2>>, "imageDataUrl") :> "other")}

InitRT ==
    /\ nodes \in {q \in ItemLists(RTLen) :
                    \A i \in 1..Len(q) : q[i].data \in ItemData[q[i].type]}
    /\ idb \in TierSamples
    /\ hydratedBoard = [NoBoard EXCEPT !.id = 1]
    /\ sev = NoSev
    /\ store = [version |-> CURRENT_VERSION, lastActiveBoard |-> 1,
                boards |-> (1 :> createDefaultBoard(1))]
    /\ ls = store
    /\ storageError = "null"
    /\ hydrating = FALSE
    /\ hydratingBoardIdRef = 1
    /\ ops = <<>>
    /\ saveTimer = FALSE
    /\ boardsMade = 1
    /\ issued = (1 :> 1)
    /\ connections = <<>>
    /\ counter = RTLen + 1
    /\ state = "idle"
    /\ loadingMode = "null"
    /\ calls = <<>>
    /\ timers = 0
    /\ ev = NoEv
    /\ lim = [nodes |-> RTLen]

RTFrame ==
    UNCHANGED <<nodes, connections, counter, state, loadingMode, calls, timers,
                ev, lim, store, ls, storageError, hydrating, hydratingBoardIdRef,
                ops, saveTimer, boardsMade, issued>>

\* fullNodes.map(stripBinaryFields)
RTStrip ==
    /\ sev.op = "none"
    /\ hydratedBoard' = [hydratedBoard EXCEPT !.nodes =
                            [i \in 1..Len(nodes) |-> stripBinaryFields(nodes[i])]]
    /\ sev' = [NoSev EXCEPT !.op = "stripped"]
    /\ UNCHANGED idb
    /\ RTFrame

\* saveBinaryFieldsForNodes(boardId, fullNodes), all writes completed
RTSave ==
    /\ sev.op = "stripped"
    /\ idb' = PutAll(idb, saveBinaryFieldsForNodes(hydratedBoard.id, nodes))
    /\ sev' = [NoSev EXCEPT !.op = "saved"]
    /\ UNCHANGED hydratedBoard
    /\ RTFrame

\* hydrateNodesFromIndexedDB(boardId, strippedNodes)
RTHydrate ==
    /\ sev.op = "saved"
    /\ hydratedBoard' = [hydratedBoard EXCEPT !.nodes =
                            hydrateNodesFromIndexedDB(idb, hydratedBoard.id, @)]
    /\ sev' = [NoSev EXCEPT !.op = "hydrated"]
    /\ UNCHANGED idb
    /\ RTFrame

NextRT == RTStrip \/ RTSave \/ RTHydrate

SpecRT == InitRT /\ [][NextRT]_vars

HydLen == 2      \* items in the list handed to the hydration

\* what the tier may hold for the first item of board 1, and for another
\* board
HydTiers ==
    {<<>>,
     (makeKey(1, <<0, 2>>, "imageDataUrl") :> "stored"),
     (makeKey(1, <<0, 2>>, "pdfDataUrl") :> "stored")
        @@ (makeKey(1, <<0, 2>>, "text") :> "stored"),
     (makeKey(2, <<0, 2>>, "imageDataUrl") :> "stored")}

\* hydration of any item list, stripped or not, against any tier
InitHyd ==
    /\ nodes \in {q \in ItemLists(HydLen) :
                    \A i \in 1..Len(q) : q[i].data \in ItemData[q[i].type]}
    /\ idb \in HydTiers
    /\ hydratedBoard = [NoBoard EXCEPT !.id = 1]
    /\ sev = NoSev
    /\ store = [version |-> CURRENT_VERSION, lastActiveBoard |-> 1,
                boards |-> (1 :> createDefaultBoard(1))]
    /\ ls = store
    /\ storageError = "null"
    /\ hydrating = FALSE
    /\ hydratingBoardIdRef = 1
    /\ ops = <<>>
    /\ saveTimer = FALSE
    /\ boardsMade = 1
    /\ issued = (1 :> 1)
    /\ connections = <<>>
    /\ counter = HydLen + 1
    /\ state = "idle"
    /\ loadingMode = "null"
    /\ calls = <<>>
    /\ timers = 0
    /\ ev = NoEv
    /\ lim = [nodes |-> HydLen]

\* hydrateNodesFromIndexedDB(boardId, nodes)
Hydrate ==
    /\ sev.op = "none"
    /\ hydratedBoard' = [hydratedBoard EXCEPT !.nodes =
                            hydrateNodesFromIndexedDB(idb, hydratedBoard.id, nodes)]
    /\ sev' = [NoSev EXCEPT !.op = "hydrated"]
    /\ UNCHANGED idb
    /\ RTFrame

\* hydrateNodesFromIndexedDB(boardId, hydratedNodes): the list hydration
\* returned is hydrated again; nodes keeps the list before it
HydrateAgain ==
    /\ sev.op = "hydrated"
    /\ nodes' = hydratedBoard.nodes
    /\ hydratedBoard' = [hydratedBoard EXCEPT !.nodes =
                            hydrateNodesFromIndexedDB(idb, hydratedBoard.id, @)]
    /\ sev' = [NoSev EXCEPT !.op = "rehydrated"]
    /\ UNCHANGED <<idb, connections, counter, state, loadingMode, calls, timers,
                   ev, lim, store, ls, storageError, hydrating, hydratingBoardIdRef,
                   ops, saveTimer, boardsMade, issued>>

NextHyd == Hydrate \/ HydrateAgain

SpecHyd == InitHyd /\ [][NextHyd]_vars

----------------------------------------------------------------------------
\* Image cards under every registry operation

MetaBoards == 2
MetaOps == 1

\* one image card on the canvas at a time: its binary field is what a
\* metadata record could carry
InitMeta ==
    /\ InitStorage
    /\ lim = [nodes |-> 1, cand |-> 0, calls |-> 0, timers |-> 0,
              boards |-> MetaBoards, ops |-> MetaOps, ids |-> 2,
              track |-> FALSE, fails |-> {}]

NextMeta ==
    \/ \E v \in BinarySamples : AddCard("imageCard", v)
    \/ Autosave
    \/ \E b \in 1..lim.boards : HandleSwitchBoard(b)
    \/ HandleCreateBoard
    \/ \E b \in 1..lim.boards, n \in NameSamples : RenameBoard(b, n)
    \/ \E b \in 1..lim.boards : DeleteRefused(b)
    \/ \E b \in 1..lim.boards : DeleteBoard(b)
    \/ ExecOp

SpecMeta == InitMeta /\ [][NextMeta]_vars

\* The operations of the hook called with any id, of a board or not (the
\* ids run one past those a board can get)

ApiBoards == 2
ApiOps == 1

\* one card on the canvas at a time: with it a board's item list and its
\* item-id counter differ from those of a fresh board
InitApi ==
    /\ InitStorage
    /\ lim = [nodes |-> 1, cand |-> 0, calls |-> 0, timers |-> 0,
              boards |-> ApiBoards, ops |-> ApiOps, ids |-> 2,
              track |-> FALSE, fails |-> {}]

NextApi ==
    \/ AddCard("textCard", "")
    \/ Autosave
    \/ HandleCreateBoard
    \/ \E b \in 1..(lim.boards + 1) : switchBoard(b)
    \/ \E b \in 1..(lim.boards + 1), n \in NameSamples : renameBoard(b, n)
    \/ \E b \in 1..(lim.boards + 1) : deleteBoard(b)
    \/ ExecOp

SpecApi == InitApi /\ [][NextApi]_vars

\* Edits of one board and the debounced auto-save

BurstNodes == 3
BurstOps == 2

InitBurst ==
    /\ InitStorage
    /\ lim = [nodes |-> BurstNodes, cand |-> 0, calls |-> 0, timers |-> 0,
              boards |-> 1, ops |-> BurstOps, ids |-> BurstNodes + 1,
              track |-> FALSE, fails |-> {}]

NextBurst ==
    \/ AddCard("textCard", "")
    \/ \E v \in BinarySamples : AddCard("imageCard", v)
    \/ OnResult
    \/ Autosave
    \/ ExecOp

SpecBurst == InitBurst /\ [][NextBurst]_vars

\* The registry operations over a metadata store whose writes may fail

FailNodes == 1
FailBoards == 2
FailOps == 1

InitFail ==
    /\ InitStorage
    /\ lim = [nodes |-> FailNodes, cand |-> 0, calls |-> 0, timers |-> 0,
              boards |-> FailBoards, ops |-> FailOps, ids |-> FailNodes + 1,
              track |-> FALSE, fails |-> {"quota", "other"}]

NextFail ==
    \/ AddCard("textCard", "")
    \/ Autosave
    \/ HandleCreateBoard
    \/ \E b \in 1..lim.boards, n \in NameSamples : RenameBoard(b, n)
    \/ \E b \in 1..lim.boards : DeleteRefused(b)
    \/ \E b \in 1..lim.boards : DeleteBoard(b)
    \/ ExecOp

SpecFail == InitFail /\ [][NextFail]_vars

----------------------------------------------------------------------------
(* hooks/useStaggeredEdges and components/WeaveEdge *)

\* stripNodePrefix: id.replace(/^node-/, '')
stripNodePrefix(id) == IF id[1] > 0 THEN <<id[1] - 1, id[2]>> ELSE id

\* the order Array.prototype.sort puts two ids in
IdBefore(a, b) == a[1] < b[1] \/ (a[1] = b[1] /\ a[2] <= b[2])

\* a variant that keeps the direction of the connection
pairKeyOrdered(source, target) == <<source, target>>

\* [source, target].sort().join('::')
pairKey(source, target) ==
    IF IdBefore(source, target) THEN <<source, target>> ELSE <<target, source>>

\* the key of a connection
connKey(conn) == pairKey(stripNodePrefix(conn.from), stripNodePrefix(conn.to))

\* pairGroups.get(key): the indices (from 0) of the connections with the
\* key, in the order forEach pushed them
RECURSIVE groupOf(_, _, _)
groupOf(conns, key, n) ==
    IF n = 0 THEN <<>>
    ELSE IF connKey(conns[n]) = key
         THEN Append(groupOf(conns, key, n - 1), n - 1)
         ELSE groupOf(conns, key, n - 1)

\* group.indexOf(index)
indexOf(group, index) ==
    (CHOOSE p \in 1..Len(group) : group[p] = index) - 1

\* a variant that centres on total / 2
edgeOffsetOffCentre(posInGroup, total) ==
    IF total <= 1 THEN 0 ELSE 2 * posInGroup - total

\* total <= 1 ? 0 : posInGroup - (total - 1) / 2, doubled to stay an integer
edgeOffset(posInGroup, total) ==
    IF total <= 1 THEN 0 ELSE 2 * posInGroup - (total - 1)

\* a variant that drops the edges of the layers out of focus
useStaggeredEdgesOfLayer(conns, activeLayer) ==
    LET shown == SelectSeq(conns, LAMBDA c : c.mode = activeLayer)
    IN  [i \in 1..Len(shown) |->
            LET source == stripNodePrefix(shown[i].from)
                target == stripNodePrefix(shown[i].to)
                group == groupOf(shown, connKey(shown[i]), Len(shown))
            IN  [id |-> <<source, target, i - 1>>, source |-> source,
                 target |-> target,
                 data |-> [mode |-> shown[i].mode, connectionIndex |-> i - 1,
                           edgeOffset |-> edgeOffset(indexOf(group, i - 1), Len(group)),
                           activeLayer |-> activeLayer]]]

\* useStaggeredEdges(connections, activeLayer): the edges handed to React
\* Flow (label, explanation, type, strength and surprise are copied and
\* left out)
useStaggeredEdges(conns, activeLayer) ==
    [i \in 1..Len(conns) |->
        LET source == stripNodePrefix(conns[i].from)
            target == stripNodePrefix(conns[i].to)
            group == groupOf(conns, connKey(conns[i]), Len(conns))
        IN  [id |-> <<source, target, i - 1>>, source |-> source,
             target |-> target,
             data |-> [mode |-> conns[i].mode, connectionIndex |-> i - 1,
                       edgeOffset |-> edgeOffset(indexOf(group, i - 1), Len(group)),
                       activeLayer |-> activeLayer]]]

\* WeaveEdge: (edgeData.mode ?? 'weave') === edgeData.activeLayer
active(edgeData) ==
    (IF edgeData.mode = UNDEF THEN "weave" ELSE edgeData.mode) = edgeData.activeLayer

\* WeaveEdge: what it draws of an edge that depends on the focus: the
\* opacity of the path, in hundredths, and whether the label is rendered
WeaveEdge(edge) ==
    [id |-> edge.id,
     opacity |-> IF active(edge.data) THEN 70 ELSE 5,
     label |-> active(edge.data)]

\* connections between three items, in both directions, with and without
\* the prefix, of several layers and of none
EdgeSamples ==
    { [from |-> <<0, 1>>, to |-> <<0, 2>>, mode |-> "weave"],
      [from |-> <<0, 2>>, to |-> <<0, 1>>, mode |-> "deeper"],
      [from |-> <<1, 1>>, to |-> <<0, 2>>, mode |-> "weave"],
      [from |-> <<0, 2>>, to |-> <<1, 1>>, mode |-> "tensions"],
      [from |-> <<0, 1>>, to |-> <<0, 3>>, mode |-> "weave"],
      [from |-> <<1, 3>>, to |-> <<1, 1>>, mode |-> "deeper"],
      [from |-> <<0, 2>>, to |-> <<0, 3>>, mode |-> UNDEF] }

\* the focus: a layer, or the default 'all'
Layers == WeaveModes \cup {"all"}

----------------------------------------------------------------------------
\* The registry load, over what the metadata store may hold

LoadIds == 2     \* board ids a stored registry may use

\* crypto.randomUUID(): an id no stored board has
LoadFreshId == LoadIds + 2

\* a stored board: empty, or holding a text card
LoadBoards(id) ==
    { createDefaultBoard(id),
      [createDefaultBoard(id) EXCEPT
          !.nodes = <<[id |-> <<"node-", 1>>, type |-> "textCard",
                       data |-> [NoData EXCEPT !.text = "idea"]]>>,
          !.nodeIdCounter = 2] }

LoadBoardMaps ==
    UNION { { m \in [S -> UNION {LoadBoards(i) : i \in S}] :
                \A i \in S : m[i] \in LoadBoards(i) } : S \in SUBSET (1..LoadIds) }

\* a stored object: each of the three fields present or not, the pointer
\* naming a stored board or not
LoadObjects ==
    { [f \in present |->
          CASE f = "version" -> CURRENT_VERSION
            [] f = "lastActiveBoard" -> a
            [] OTHER -> m] :
        present \in SUBSET {"version", "lastActiveBoard", "boards"},
        a \in 1..(LoadIds + 1),
        m \in LoadBoardMaps }

\* what getItem + JSON.parse give: an object, nothing (getItem returns null),
\* text that does not parse, a value that is no object, or getItem throws
LoadSamples ==
    { [kind |-> "object", value |-> v] : v \in LoadObjects }
    \cup { [kind |-> k, value |-> <<>>] :
             k \in {"null", "garbage", "scalar", "unreadable"} }

\* before the hook is mounted; ls holds the stored text as a sample
InitLoad ==
    /\ ls \in LoadSamples
    /\ store = [version |-> CURRENT_VERSION, lastActiveBoard |-> 0, boards |-> <<>>]
    /\ storageError = "null"
    /\ hydratedBoard = NoBoard
    /\ hydrating = TRUE
    /\ hydratingBoardIdRef = 0
    /\ idb = <<>>
    /\ ops = <<>>
    /\ saveTimer = FALSE
    /\ boardsMade = 0
    /\ issued = <<>>
    /\ sev = NoSev
    /\ nodes = <<>>
    /\ connections = <<>>
    /\ counter = 1
    /\ state = "idle"
    /\ loadingMode = "null"
    /\ calls = <<>>
    /\ timers = 0
    /\ ev = NoEv
    /\ lim = [fails |-> {"quota", "other"}]

\* loadOrCreateStore(): the store of useState's initialiser; the default
\* store is written back, and a failure of that write is swallowed
\* (sev.ret: no write-back failed)
Load ==
    /\ sev.op = "none"
    /\ \E o \in IF isValidStore(ls) THEN {"ok"} ELSE WriteOutcomes(lim.fails) :
          LET loaded == loadOrCreateStore(ls, LoadFreshId)
          IN  /\ store' = loaded
              /\ ls' = IF ~isValidStore(ls) /\ o = "ok"
                        THEN [kind |-> "object", value |-> loaded]
                        ELSE ls
              /\ sev' = [NoSev EXCEPT !.op = "load", !.ret = (o = "ok")]
    /\ UNCHANGED <<nodes, connections, counter, state, loadingMode, calls, timers,
                   ev, lim, storageError, hydratedBoard, hydrating,
                   hydratingBoardIdRef, idb, ops, saveTimer, boardsMade, issued>>

NextLoad == Load

SpecLoad == InitLoad /\ [][NextLoad]_vars

(* Specifications *)

InitWeave ==
    /\ nodes = initialNodes
    /\ connections = <<>>
    /\ counter = 1
    /\ state = "idle"
    /\ loadingMode = "null"
    /\ calls = <<>>
    /\ timers = 0
    /\ ev = NoEv
    /\ NoStorage

\* one request at a time and one display timer; overlapping requests and
\* timers are explored in SpecRace
Init ==
    /\ InitWeave
    /\ lim = [nodes |-> MaxNodes, cand |-> MaxCand, calls |-> 1, timers |-> 1]

\* a canvas the user has filled: the first card and the added ones hold text
contentCards(n) ==
    [i \in 1..n |-> [id |-> <<0, i>>, type |-> "textCard",
                     data |-> [NoData EXCEPT !.text = "idea"]]]

InitRound ==
    /\ nodes = contentCards(RoundNodes)
    /\ connections = <<>>
    /\ counter = RoundNodes
    /\ state = "idle"
    /\ loadingMode = "null"
    /\ calls = <<>>
    /\ timers = 0
    /\ ev = NoEv
    /\ NoStorage
    /\ lim = [nodes |-> RoundNodes, cand |-> MaxCand, calls |-> 1, timers |-> 1]

InitRace ==
    /\ InitWeave
    /\ lim = [nodes |-> RaceNodes, cand |-> RaceCand, calls |-> RaceCalls,
              timers |-> RaceTimers]

Next ==
    \/ AddText
    \/ \E i \in 1..lim.nodes, s \in TextSamples : EditText(i, s)
    \/ \E mode \in WeaveModes : RejectWeave(mode)
    \/ \E mode \in WeaveModes : SkipWeave(mode)
    \/ \E mode \in WeaveModes : StartWeave(mode)
    \/ \E i \in 1..lim.calls : CompleteWeave(i)
    \/ \E i \in 1..lim.calls : FailWeave(i)
    \/ Timeout

\* the layers requested in SpecRound
RoundModes == {"weave", "deeper"}

\* the controller alone: no card is added or edited
NextRound ==
    \/ \E mode \in RoundModes : RejectWeave(mode)
    \/ \E mode \in RoundModes : SkipWeave(mode)
    \/ \E mode \in RoundModes : StartWeave(mode)
    \/ \E i \in 1..lim.calls : CompleteWeave(i)
    \/ \E i \in 1..lim.calls : FailWeave(i)
    \/ Timeout

Spec == Init /\ [][Next]_vars

SpecRound == InitRound /\ [][NextRound]_vars

SpecRace == InitRace /\ [][Next]_vars

\* bounds of the exploration with fairness
LiveNodes == 2
LiveCand == 1
LiveTimers == 1

\* one request at a time, as in Spec
InitLive ==
    /\ InitWeave
    /\ lim = [nodes |-> LiveNodes, cand |-> LiveCand, calls |-> 1,
              timers |-> LiveTimers]

\* a timer that was set fires: the browser runs it once its delay is over
SpecLive == InitLive /\ [][Next]_vars /\ WF_vars(Timeout)

BinNodes == 3    \* items on the canvas
BinOps == 2      \* operations pending in the binary tier

InitBin ==
    /\ InitStorage
    /\ lim = [nodes |-> BinNodes, cand |-> 0, calls |-> 0, timers |-> 0,
              boards |-> 1, ops |-> BinOps, ids |-> BinNodes + 1,
              track |-> FALSE, fails |-> {}]

\* saves of image cards with a binary tier that may reject
NextBin ==
    \/ AddCard("textCard", "")
    \/ \E v \in BinarySamples : AddCard("imageCard", v)
    \/ Autosave
    \/ ExecOp
    \/ RejectOp

SpecBin == InitBin /\ [][NextBin]_vars

RecBoards == 2   \* boards made in a session
RecOps == 2      \* operations pending in the binary tier

\* one image card at most keeps the boards small
InitRec ==
    /\ InitStorage
    /\ lim = [nodes |-> 1, cand |-> 0, calls |-> 0, timers |-> 0,
              boards |-> RecBoards, ops |-> RecOps, ids |-> 2,
              track |-> FALSE, fails |-> {}]

\* activations of boards with a binary tier that may reject
NextRec ==
    \/ \E v \in BinarySamples : AddCard("imageCard", v)
    \/ Autosave
    \/ \E b \in 1..lim.boards : HandleSwitchBoard(b)
    \/ HandleCreateBoard
    \/ \E b \in 1..lim.boards : DeleteBoard(b)
    \/ ExecOp
    \/ RejectOp

\* the binary tier answers every operation it was handed: the promise
\* at the head of the queue settles, resolved or rejected
SpecRec == InitRec /\ [][NextRec]_vars /\ WF_vars(ExecOp \/ RejectOp)

\* the derivation of the edges, over lists of connections
EdgeLen == 3     \* connections in the list

InitEdges ==
    /\ InitWeave
    /\ lim = [nodes |-> 0, cand |-> 0, calls |-> 0, timers |-> 0]

\* the list of connections is set (a board is shown, or a result arrives)
SetConnections(conns) ==
    /\ ev.op = "none"
    /\ connections = <<>>
    /\ conns # <<>>
    /\ connections' = conns
    /\ ev' = NoEv
    /\ UNCHANGED <<nodes, counter, state, loadingMode, calls, timers, lim, svars>>

\* a render with the focus on layer: the edges useMemo holds (ev.result),
\* ev.mode the focus
RenderEdges(layer) ==
    /\ ev' = [NoEv EXCEPT !.op = "edges", !.mode = layer,
                          !.result = useStaggeredEdges(connections, layer)]
    /\ UNCHANGED <<nodes, connections, counter, state, loadingMode, calls, timers,
                   lim, svars>>

NextEdges ==
    \/ \E conns \in SeqsUpTo(EdgeSamples, EdgeLen) : SetConnections(conns)
    \/ \E layer \in Layers : RenderEdges(layer)

SpecEdges == InitEdges /\ [][NextEdges]_vars

\* the controller with its Clear button
NextClear ==
    \/ Next
    \/ Clear

SpecClear == InitRace /\ [][NextClear]_vars

----------------------------------------------------------------------------
(* What the specification says, in its own terms *)

\* canonicalization: the id without any decoration
Canon(id) == <<0, id[2]>>

\* ConnectionGraph.connectedNodeSet(layer)
ConnectedNodeSet(conns, layer) ==
    UNION {{Canon(conns[i].from), Canon(conns[i].to)} :
              i \in {j \in 1..Len(conns) : conns[j].mode = layer}}

LayerConnections(conns, layer) == SelectSeq(conns, LAMBDA c: c.mode = layer)

\* the ids of the items holding non-empty, non-placeholder content
EligibleIds(ns) ==
    {Canon(ns[i].id) : i \in {j \in 1..Len(ns) : ~isEmptyNode(ns[j])}}

\* the closure of every invocation in flight was computed from the layer as
\* it is (nothing changes the connections while a single round runs)
ClosuresMatchLayer ==
    \A i \in 1..Len(calls) :
        /\ calls[i].isFirstRun = (LayerConnections(connections, calls[i].mode) = <<>>)
        /\ calls[i].connected = ConnectedNodeSet(connections, calls[i].mode)

----------------------------------------------------------------------------
(* C1..C5: the analysis controller *)

\* C1: on a re-run of layer L, when at least two items are eligible and every
\* eligible id is an endpoint of a connection of L, handleWeave does not call
\* analyzeCanvas and reports no-new.
C1_SaturatedRerunSkips ==
    LET eligible == EligibleIds(nodes)
    IN  ( /\ ev.op \in {"call", "skip"}
          /\ LayerConnections(connections, ev.mode) # <<>>
          /\ Cardinality(eligible) >= 2
          /\ eligible \subseteq ConnectedNodeSet(connections, ev.mode) )
        => (ev.op = "skip" /\ state = "no-new" /\ calls = <<>>)

\* C2: no two invocations for the same layer are in flight at once, and a
\* request is turned into an invocation only when none is running.
C2_OneInvocationPerLayer ==
    /\ \A i, j \in 1..Len(calls) : i # j => calls[i].mode # calls[j].mode
    /\ ev.op = "call" => Len(calls) = 1

\* C3: on a re-run the connections handed over are exactly the candidates, in
\* the returned order, with a canonicalized endpoint outside the connected set
\* of the layer as it was before the invocation, tagged with the layer.
C3_RerunKeepsNovelInOrder ==
    /\ ClosuresMatchLayer
    /\ (ev.op = "done" /\ ~ev.first) =>
          LET novel == SelectSeq(ev.result, LAMBDA c:
                          Canon(c.from) \notin ev.connected
                              \/ Canon(c.to) \notin ev.connected)
          IN  /\ Len(ev.kept) = Len(novel)
              /\ \A i \in 1..Len(novel) :
                    /\ ev.kept[i].from = novel[i].from
                    /\ ev.kept[i].to = novel[i].to

\* a re-run that drops its first candidate and keeps its second
C3_Witness ==
    /\ ev.op = "done" /\ ~ev.first
    /\ Len(ev.result) = 2 /\ Len(ev.kept) = 1
    /\ ev.kept[1].from = ev.result[2].from /\ ev.kept[1].to = ev.result[2].to
    /\ ev.result[1] # ev.result[2]

\* C4: on the first run of a layer, whatever the other layers hold, every
\* candidate returned is kept, unfiltered, and tagged with the layer.
C4_FirstRunKeepsAll ==
    /\ \A i \in 1..Len(calls) :
          calls[i].isFirstRun = (LayerConnections(connections, calls[i].mode) = <<>>)
    /\ (ev.op = "done" /\ ev.first) =>
          /\ Len(ev.kept) = Len(ev.result)
          /\ \A i \in 1..Len(ev.result) :
                ev.kept[i] = [from |-> ev.result[i].from, to |-> ev.result[i].to,
                              mode |-> ev.mode]

\* the first run of "deeper" keeps two candidates
C4_Witness ==
    /\ ev.op = "done" /\ ev.first /\ ev.mode = "deeper"
    /\ Len(ev.result) = 2 /\ Len(ev.kept) = 2

\* C5: a successful round only appends: each layer's connections after the
\* round are those it held before, followed by the kept candidates for the
\* layer of the round.
C5_RoundOnlyAppends ==
    [][ (ev'.op = "done" /\ Len(ev'.kept) > 0) =>
            \A layer \in WeaveModes :
                LayerConnections(connections', layer) =
                    LayerConnections(connections, layer)
                        \o (IF layer = ev'.mode THEN ev'.kept ELSE <<>>) ]_vars

----------------------------------------------------------------------------
(* C6..C10: the two persistence tiers and the board registry *)

EmptyBinaryAbsent(ns) ==
    [i \in 1..Len(ns) |->
        [ns[i] EXCEPT !.data = [f \in DOMAIN ns[i].data |->
            IF f \in getBinaryFields(ns[i].type) /\ ns[i].data[f] = ""
            THEN UNDEF ELSE ns[i].data[f]]]]

C7_StaleHydrationDiscarded ==
    [][ ( /\ sev'.op = "hydrated"
          /\ sev'.board # store.lastActiveBoard
          /\ sev'.board \in DOMAIN store.boards )
        => /\ hydratedBoard' = hydratedBoard
           /\ hydrating' = hydrating
           /\ currentBoard(store', hydratedBoard') = currentBoard(store, hydratedBoard)
      ]_vars

\* C8: an id issued for a board is greater than every id issued for that
\* board before.
C8_IdsStrictlyIncreasing ==
    sev.op = "add" => sev.id > sev.before

\* C9: once no write, key listing or deletion for a deleted board is pending,
\* the binary store holds no key of that board.
C9_SweepLeavesNoKey ==
    \A b \in (1..boardsMade) \ DOMAIN store.boards :
        (\A i \in 1..Len(ops) : ops[i].kind = "hydrate" \/ ops[i].board # b)
            => \A k \in DOMAIN idb : k[1] # b

\* the sweep of a board deleted with a save in flight removed its keys, and
\* nothing is pending
C9_Witness ==
    /\ sev.op = "del" /\ sev.raced
    /\ sev.board \notin DOMAIN store.boards
    /\ ops = <<>>
    /\ \A k \in DOMAIN idb : k[1] # sev.board

\* C10: the registry, in memory and as persisted, always holds a board, and
\* deleteBoard on a registry with a single board returns false and changes
\* nothing.
C10_RegistryNeverEmpty ==
    [][ /\ DOMAIN store.boards # {} /\ DOMAIN store'.boards # {}
        /\ DOMAIN ls.boards # {} /\ DOMAIN ls'.boards # {}
        /\ (sev'.op = "delete" /\ Cardinality(DOMAIN store.boards) = 1) =>
              /\ sev'.ret = FALSE
              /\ UNCHANGED <<store, ls, nodes, connections, counter,
                             hydratedBoard, hydrating, hydratingBoardIdRef,
                             idb, ops, saveTimer>>
      ]_vars

\* deleteBoard was refused on the only board, after another had been deleted
C10_Witness ==
    /\ sev.op = "delete" /\ sev.ret = FALSE
    /\ Cardinality(DOMAIN store.boards) = 1
    /\ boardsMade > 1

\* C11: in every reachable state the active-board pointer names a board of
\* the boards map, in the registry held in memory and in the one persisted,
\* whatever boards were created, switched to, renamed, saved or deleted
C11_ActivePointerResolves ==
    /\ store.lastActiveBoard \in DOMAIN store.boards
    /\ ls.lastActiveBoard \in DOMAIN ls.boards

\* the active board has just been deleted and another one is active
C11_Witness ==
    /\ sev.op = "delete"
    /\ sev.ret
    /\ sev.before = sev.board
    /\ sev.board \notin DOMAIN store.boards
    /\ store.lastActiveBoard \in DOMAIN store.boards
\* a registry made of one default board, empty and active
IsFreshRegistry(st) ==
    /\ DOMAIN st.boards = {LoadFreshId}
    /\ st.lastActiveBoard = LoadFreshId
    /\ st.boards[LoadFreshId].nodes = <<>>
    /\ st.boards[LoadFreshId].connections = <<>>

\* the stored value has no version, no active-board id or no board
ShapeInvalid(raw) ==
    \/ raw.kind # "object"
    \/ "version" \notin DOMAIN raw.value
    \/ "lastActiveBoard" \notin DOMAIN raw.value
    \/ "boards" \notin DOMAIN raw.value
    \/ DOMAIN raw.value.boards = {}

\* the stored active-board id names no stored board
PointerDangles(raw) ==
    /\ ~ShapeInvalid(raw)
    /\ raw.value.lastActiveBoard \notin DOMAIN raw.value.boards

\* C12 (as stated): a stored registry without version, without active-board
\* id, with an active-board id that names no board, or without boards, is
\* replaced by a fresh registry of one empty board
C12_InvalidFallsBack ==
    [][(sev'.op = "load" /\ (ShapeInvalid(ls) \/ PointerDangles(ls)))
        => IsFreshRegistry(store')]_vars

\* C12: a stored value without version, without active-board id or without
\* boards is replaced by a fresh registry of one empty board; a stored
\* registry whose active-board id names no board is kept, its pointer moved
\* to the first stored board; any other stored registry is returned as it is
C12_FallsBackOrRepairs ==
    [][sev'.op = "load" =>
        IF ShapeInvalid(ls)
        THEN IsFreshRegistry(store')
        ELSE /\ store'.boards = ls.value.boards
             /\ store'.version = ls.value.version
             /\ store'.lastActiveBoard =
                    IF PointerDangles(ls)
                    THEN CHOOSE b \in DOMAIN ls.value.boards :
                            \A c \in DOMAIN ls.value.boards : b <= c
                    ELSE ls.value.lastActiveBoard]_vars

\* a registry with a dangling pointer was loaded: its boards were kept
C12_Witness ==
    /\ sev.op = "load"
    /\ PointerDangles(ls)
    /\ store.boards = ls.value.boards
    /\ Cardinality(DOMAIN store.boards) > 1
    /\ store.lastActiveBoard \in DOMAIN store.boards

\* C13: when the stored text does not parse, when reading it throws, or when
\* the write-back of the fresh registry fails, the load returns a registry
\* of exactly one board, without items or connections, which is the active one
C13_UnreadableGivesOneEmptyBoard ==
    [][(sev'.op = "load" /\ (ls.kind \in {"garbage", "unreadable"} \/ ~sev'.ret))
        => /\ Cardinality(DOMAIN store'.boards) = 1
           /\ store'.lastActiveBoard \in DOMAIN store'.boards
           /\ store'.boards[store'.lastActiveBoard].nodes = <<>>
           /\ store'.boards[store'.lastActiveBoard].connections = <<>>]_vars

\* unparseable text was loaded and the write-back failed: the text is still
\* stored, the registry in memory has its one board
C13_Witness ==
    /\ sev.op = "load"
    /\ ~sev.ret
    /\ ls.kind = "garbage"
    /\ Cardinality(DOMAIN store.boards) = 1
\* the registry an operation leaves in memory when its write succeeds
ProducedBy(op, board, st, after) ==
    CASE op = "save" ->
            after = savedStore(st, stripLoadingFromLinkCards(nodes), connections, counter)
      [] op = "rename" ->
            /\ after # st
            /\ \E n \in NameSamples : after = [st EXCEPT !.boards[board].name = n]
      [] op = "delete" ->
            /\ DOMAIN after.boards = DOMAIN st.boards \ {board}
            /\ \A b \in DOMAIN after.boards : after.boards[b] = st.boards[b]
            /\ after.lastActiveBoard \in DOMAIN after.boards
      [] op = "switch" ->
            after = [st EXCEPT !.lastActiveBoard = board]
      [] op = "create" ->
            /\ DOMAIN after.boards = DOMAIN st.boards \cup {board}
            /\ after.lastActiveBoard = board
            /\ \A b \in DOMAIN st.boards : after.boards[b] = st.boards[b]
      [] OTHER -> FALSE

NoBinaryField(st) ==
    \A b \in DOMAIN st.boards :
        \A i \in 1..Len(st.boards[b].nodes) :
            \A f \in {"imageDataUrl", "pdfDataUrl", "thumbnailDataUrl"} :
                st.boards[b].nodes[i].data[f] = UNDEF

\* C15: whatever sequence of saves, creations, switches, renames and
\* deletions ran since a fresh registry, the record the metadata store holds
\* has no imageDataUrl, pdfDataUrl or thumbnailDataUrl in any item of any board
C15_MetadataHasNoBinary ==
    NoBinaryField(ls)

\* the metadata store holds an image card of a board, while the canvas shows
\* that card with its image
C15_Witness ==
    /\ \E b \in DOMAIN ls.boards : ls.boards[b].nodes # <<>>
    /\ \E i \in 1..Len(nodes) : nodes[i].data.imageDataUrl = "img"
    /\ NoBinaryField(ls)
\* the hydration started for the active board has not resolved
HydrationPending ==
    \E i \in 1..Len(ops) :
        /\ ops[i].kind = "hydrate"
        /\ ops[i].board.id = store.lastActiveBoard

\* C16: no step that calls saveCurrentBoard for the active board, be it the
\* debounced auto-save or the flush that precedes switchBoard and
\* createBoard, is taken while the hydration of that board is outstanding
C16_NoSaveWhileHydrating ==
    [][(\/ Autosave
        \/ \E b \in 1..lim.boards : HandleSwitchBoard(b)
        \/ HandleCreateBoard)
        => ~HydrationPending]_vars
\* C17: deleteBoard(id) returns false, the registry unchanged, when one board
\* is left; when it returns true the id named a board, that board is gone
\* and the registry has one board less; and when the board removed was the
\* active one, the pointer and the item-id counter are those of a board left
C17_DeleteReturnsWhatItDid ==
    [][sev'.op = "delete" =>
        IF ~sev'.ret
        THEN /\ Cardinality(DOMAIN store.boards) = 1
             /\ store' = store
        ELSE /\ sev'.board \in DOMAIN store.boards
             /\ sev'.board \notin DOMAIN store'.boards
             /\ Cardinality(DOMAIN store'.boards) = Cardinality(DOMAIN store.boards) - 1
             /\ sev'.board = store.lastActiveBoard =>
                    /\ store'.lastActiveBoard \in DOMAIN store'.boards
                    /\ counter' = store'.boards[store'.lastActiveBoard].nodeIdCounter]_vars

\* C18: switchBoard and renameBoard called with an id that names no board
\* change nothing: the boards map, the active pointer, the item-id counter,
\* the hydration state, the canvas and the metadata store stay as they were
C18_UnknownIdIsNoOp ==
    [][(sev'.op \in {"switch", "rename"} /\ sev'.board \notin DOMAIN store.boards)
        => UNCHANGED <<store, counter, hydratedBoard, hydrating, hydratingBoardIdRef,
                       ls, storageError, nodes, connections, ops, idb>>]_vars

\* switchBoard was called with the id of a board deleted before
C18_Witness ==
    /\ sev.op = "switch"
    /\ sev.board \notin DOMAIN store.boards
    /\ sev.board <= boardsMade
    /\ store.lastActiveBoard \in DOMAIN store.boards
\* C19: the result of an invocation that was in flight when the user cleared
\* the graph is discarded when it arrives: the connection list, empty since
\* the clear unless a later invocation filled it, is left as it is
C19_ClearedResultDiscarded ==
    [][\A i \in 1..Len(calls) :
          (calls[i].cleared /\ CompleteWeave(i)) => connections' = connections]_vars
\* C20: when the invocation of the collaborator fails, the controller shows
\* the error state, the connection list is left as it was and no invocation
\* is started by the failure; an invocation is started only by a request of
\* the user; and the error state is followed by the idle state, once the
\* display timer has fired
C20_FailureShowsErrorThenIdle ==
    /\ [][ev'.op = "fail" =>
            /\ state' = "error"
            /\ connections' = connections
            /\ Len(calls') = Len(calls) - 1
            /\ timers' = timers + 1]_vars
    /\ [][Len(calls') > Len(calls) => ev'.op = "call"]_vars
    /\ ((state = "error") ~> (state = "idle"))

\* an invocation has just failed, with connections on the canvas
C20_Witness ==
    /\ ev.op = "fail"
    /\ state = "error"
    /\ timers > 0
    /\ Len(connections) > 0
\* an edit of the canvas: a card is added, or the connections are replaced
EditStep ==
    \/ AddCard("textCard", "")
    \/ \E v \in BinarySamples : AddCard("imageCard", v)
    \/ OnResult

\* C21: an edit writes nothing to the metadata store and leaves the timer
\* armed; the save of the timer writes the items and connections the canvas
\* holds then, those of the last edit, and leaves no timer armed: a burst of
\* edits without a timer expiry between them ends in one save, of the latest
\* state
C21_BurstSavedOnce ==
    [][/\ EditStep => (saveTimer' /\ ls' = ls /\ store' = store)
       /\ Autosave =>
            LET saved == ls'.boards[ls'.lastActiveBoard]
            IN  /\ Len(saved.nodes) = Len(nodes)
                /\ \A i \in 1..Len(nodes) :
                      /\ saved.nodes[i].id = nodes[i].id
                      /\ saved.nodes[i].data.text = nodes[i].data.text
                /\ saved.connections = connections
                /\ ~saveTimer']_vars

\* two cards and a connection between them are saved: the metadata store
\* holds what the canvas holds and no timer is armed
C21_Witness ==
    /\ ~saveTimer
    /\ Len(nodes) = 2
    /\ Len(connections) = 1
    /\ Len(ls.boards[ls.lastActiveBoard].nodes) = 2
    /\ ls.boards[ls.lastActiveBoard].connections = connections
\* the endpoints of a connection without any prefix, as a set
Endpoints(conn) == {Canon(conn.from), Canon(conn.to)}

\* the positions (from 1) of the connections parallel to the i-th
Parallel(conns, i) == {j \in 1..Len(conns) : Endpoints(conns[j]) = Endpoints(conns[i])}

\* C22: in a group of n parallel connections the k-th in insertion order
\* (k from 0) has the offset k - (n-1)/2 (twice that here): the offsets of
\* a group grow with the insertion position, add up to zero, and x is one
\* of them exactly when -x is
C22_OffsetsCentred ==
    ev.op = "edges" =>
        \A i \in 1..Len(connections) :
            LET g == Parallel(connections, i)
                n == Cardinality(g)
                k == Cardinality({j \in g : j < i})
                off == [j \in g |-> ev.result[j].data.edgeOffset]
            IN  /\ off[i] = 2 * k - (n - 1)
                /\ \A j \in g : j < i => off[j] < off[i]
                /\ \A j \in g : \E m \in g : off[m] = 0 - off[j]
                /\ \A j \in g :
                      off[j] = 0 - off[CHOOSE m \in g :
                          Cardinality({q \in g : q < m}) = n - 1 - Cardinality({q \in g : q < j})]

\* three parallel connections were rendered
C22_Witness ==
    /\ ev.op = "edges"
    /\ Len(connections) = EdgeLen
    /\ Cardinality(Parallel(connections, 1)) = Len(connections)
    /\ connections[1].from # connections[2].from

\* C23: two connections are in the same group exactly when their unordered
\* pairs of endpoint ids, the prefix node- stripped, are equal
C23_GroupedByUnorderedPair ==
    ev.op = "edges" =>
        \A i, j \in 1..Len(connections) :
            (groupOf(connections, connKey(connections[i]), Len(connections))
                = groupOf(connections, connKey(connections[j]), Len(connections)))
            <=> (Endpoints(connections[i]) = Endpoints(connections[j]))

\* A to B, B to A with one prefixed id, and a connection of another pair
\* were grouped
C23_Witness ==
    /\ ev.op = "edges"
    /\ Len(connections) = 3
    /\ connections[1].from = <<0, 1>> /\ connections[1].to = <<0, 2>>
    /\ connections[2].from = <<0, 2>> /\ connections[2].to = <<1, 1>>
    /\ Endpoints(connections[3]) # Endpoints(connections[1])
    /\ ev.result[1].data.edgeOffset = 0 - 1
    /\ ev.result[2].data.edgeOffset = 1
    /\ ev.result[3].data.edgeOffset = 0

\* an edge without what the focus decides
EdgeCore(edge) ==
    [id |-> edge.id, source |-> edge.source, target |-> edge.target,
     mode |-> edge.data.mode, connectionIndex |-> edge.data.connectionIndex,
     edgeOffset |-> edge.data.edgeOffset]

\* C24: whatever layer has the focus, the edges derived from the connection
\* list are the same in number, id, endpoints and offset; the opacity of the
\* path and the label are those of the focus: full and shown for the edges of
\* the focused layer, dimmed and hidden for the others
C24_FocusOnlyChangesVisibility ==
    ev.op = "edges" =>
        /\ Len(ev.result) = Len(connections)
        /\ \A layer \in Layers :
              LET other == useStaggeredEdges(connections, layer)
              IN  /\ Len(other) = Len(ev.result)
                  /\ \A i \in 1..Len(other) : EdgeCore(other[i]) = EdgeCore(ev.result[i])
        /\ \A i \in 1..Len(ev.result) :
              LET shown == (IF connections[i].mode = UNDEF THEN "weave"
                            ELSE connections[i].mode) = ev.mode
              IN  /\ WeaveEdge(ev.result[i]).label = shown
                  /\ WeaveEdge(ev.result[i]).opacity = IF shown THEN 70 ELSE 5

\* connections of two layers were rendered with the focus on one of them
C24_Witness ==
    /\ ev.op = "edges"
    /\ ev.mode = "deeper"
    /\ \E i, j \in 1..Len(ev.result) :
          /\ WeaveEdge(ev.result[i]).label
          /\ ~WeaveEdge(ev.result[j]).label
\* the binary write at the head of the queue
BinaryWritePending == ops # <<>> /\ Head(ops).kind = "set"

\* C25: a binary write that is rejected leaves the storage warning, the
\* registry in memory and the metadata store as they are, and a save writes
\* the metadata in the step that issues the binary write, whatever is still
\* pending in the binary tier
C25_BinaryFailureIsSilent ==
    [][/\ (RejectOp /\ BinaryWritePending) =>
            /\ storageError' = storageError
            /\ store' = store
            /\ ls' = ls
       /\ Autosave =>
            /\ ls' = store'
            /\ ls'.boards[store.lastActiveBoard].nodes
                  = [i \in 1..Len(nodes) |->
                        stripBinaryFields(stripLoadingFromLinkCards(nodes)[i])]
            /\ storageError' = "null"]_vars

\* the binary write of a saved image was rejected: the metadata store holds
\* the item, the binary tier does not hold its image, no warning is shown
C25_Witness ==
    /\ sev.op = "rejected"
    /\ sev.wrote = <<"set">>
    /\ storageError = "null"
    /\ idb = <<>>
    /\ \E i \in 1..Len(ls.boards[ls.lastActiveBoard].nodes) :
          ls.boards[ls.lastActiveBoard].nodes[i].type = "imageCard"
    /\ ls = store
\* C26: hydration never overwrites and is idempotent: a binary field present
\* on an item (empty or not) comes back as it was whatever the tier holds,
\* fields that are not binary for the kind of the item come back as they
\* were, and hydrating the hydrated list gives the same list
C26_HydrationNeverOverwrites ==
    /\ sev.op = "hydrated" =>
          /\ Len(hydratedBoard.nodes) = Len(nodes)
          /\ \A i \in 1..Len(nodes) :
                /\ hydratedBoard.nodes[i].id = nodes[i].id
                /\ hydratedBoard.nodes[i].type = nodes[i].type
                /\ \A f \in DOMAIN nodes[i].data :
                      (f \notin getBinaryFields(nodes[i].type) \/ nodes[i].data[f] # UNDEF)
                          => hydratedBoard.nodes[i].data[f] = nodes[i].data[f]
    /\ sev.op = "rehydrated" => hydratedBoard.nodes = nodes
\* C27: after renameBoard(id, newName) with a known id the board list
\* reports newName for id and, when id is the active board, so does the
\* current board returned by the hook; the items, connections and counter of
\* every board, the names of the other boards and the active pointer are as
\* before
C27_RenameShowsNewName ==
    [][\A b \in 1..lim.boards, n \in NameSamples :
          RenameBoard(b, n) =>
              /\ store'.boards[b].name = n
              /\ store'.lastActiveBoard = b
                    => currentBoard(store', hydratedBoard').name = n
              /\ store'.lastActiveBoard = store.lastActiveBoard
              /\ DOMAIN store'.boards = DOMAIN store.boards
              /\ \A o \in DOMAIN store.boards :
                    /\ store'.boards[o].nodes = store.boards[o].nodes
                    /\ store'.boards[o].connections = store.boards[o].connections
                    /\ store'.boards[o].nodeIdCounter = store.boards[o].nodeIdCounter
                    /\ o # b => store'.boards[o].name = store.boards[o].name]_vars
\* the board b of registry r holds the canvas as a save writes it
HoldsCanvas(r, b) ==
    /\ b \in DOMAIN r.boards
    /\ r.boards[b].nodes
          = [i \in 1..Len(nodes) |->
                stripBinaryFields(stripLoadingFromLinkCards(nodes)[i])]
    /\ r.boards[b].connections = connections

\* C28: when the flush of the canvas is followed in the same event by
\* switchBoard or createBoard, the registry afterwards, in memory and in the
\* metadata store, holds the flushed items and connections under the board
\* that was active, and the active pointer names the board selected
C28_FlushSurvivesSwitch ==
    [][/\ \A b \in 1..lim.boards :
            HandleSwitchBoard(b) =>
                /\ HoldsCanvas(store', store.lastActiveBoard)
                /\ HoldsCanvas(ls', store.lastActiveBoard)
                /\ store'.lastActiveBoard = b
                /\ ls'.lastActiveBoard = b
       /\ HandleCreateBoard =>
            /\ HoldsCanvas(store', store.lastActiveBoard)
            /\ HoldsCanvas(ls', store.lastActiveBoard)
            /\ store'.lastActiveBoard = boardsMade'
            /\ ls'.lastActiveBoard = boardsMade']_vars
\* C29: after every activation of a board the hydrating flag becomes false
\* again and the items of the active board are on the canvas, also when a
\* read of the binary tier finds no entry or fails
C29_HydrationEnds == hydrating ~> ~hydrating
\* a round that ended without anything new: the guard skipped the call, or
\* the call returned and nothing of its result was kept
EndsNoNew == ev'.op = "skip" \/ (ev'.op = "done" /\ Len(ev'.kept) = 0)

\* C30: a round that ends in no-new leaves the graph as it is, shows no-new
\* and starts the display timer; no step but the start of a round hands a
\* call to the collaborator, the timer in particular does not; and no-new
\* is followed by idle
C30_NoNewAppendsNothingThenIdle ==
    /\ [][EndsNoNew =>
            /\ state' = "no-new"
            /\ connections' = connections
            /\ Len(calls') <= Len(calls)
            /\ timers' = timers + 1]_vars
    /\ [][Timeout => (calls' = calls /\ connections' = connections)]_vars
    /\ ((state = "no-new") ~> (state = "idle"))

\* the guard skipped a second run over a graph that connects every card
C30_Witness ==
    /\ ev.op = "skip"
    /\ state = "no-new"
    /\ timers > 0
    /\ Len(connections) > 0
    /\ calls = <<>>
====
